---- MODULE Spec2Model ----
(***************************************************************************)
(* Model of src/activity.ts: the rich-presence payload assembler           *)
(* activity(), its template resolver details() and the token               *)
(* substitution of fileDetails().                                          *)
(*                                                                         *)
(* Strings are sequences of symbols.  A symbol is either a placeholder     *)
(* token of REPLACE_KEYS or an opaque chunk of literal text, so that       *)
(* String.prototype.includes is membership and String.prototype.replace    *)
(* with a string pattern rewrites the FIRST occurrence only.               *)
(***************************************************************************)
EXTENDS Integers, Sequences, FiniteSets, TLC

VARIABLES
    host,       \* ambient host state: window.activeTextEditor, debug.activeDebugSession, git
    clock,      \* Date.now()
    calls,      \* the invocations of activity(), each with its position and locals
    last,       \* what the caller keeps of the payload most recently returned: the
                \* one field activity() reads of its previous payload
    returned,   \* history: startTimestamp of every returned payload, in order of return
    ended,      \* history: the invocation the latest step ended, as it returned or threw
    started,    \* history: how many calls of activity() have been made
    overlap,    \* history: some call started while another one was suspended
    changes,    \* history: how many times the host state has changed
    fd,         \* a stand-alone fileDetails() run (pure-function specification)
    fs          \* a stand-alone file-size rendering (pure-function specification)

vars == <<host, clock, calls, last, returned, ended, started, overlap, changes, fd, fs>>

----------------------------------------------------------------------------
(* Bounds of the model *)

MaxCalls == 2
MaxClock == 1
MaxChanges == 1
MaxLen == 3
MaxMant == 15
MaxExp == 6
MaxOff == 5

----------------------------------------------------------------------------
(* Constants imported from ./constants (activity.ts:4-15) *)

EMPTY == "<EMPTY>"
UNKNOWN_GIT_BRANCH == "<UNKNOWN_GIT_BRANCH>"
UNKNOWN_GIT_REPO_NAME == "<UNKNOWN_GIT_REPO_NAME>"
IDLE_IMAGE_KEY == "<IDLE_IMAGE_KEY>"
DEBUG_IMAGE_KEY == "<DEBUG_IMAGE_KEY>"
VSCODE_IMAGE_KEY == "<VSCODE_IMAGE_KEY>"
VSCODE_INSIDERS_IMAGE_KEY == "<VSCODE_INSIDERS_IMAGE_KEY>"

REPLACE_KEYS ==
    [ Empty |-> "{empty}", FileName |-> "{file_name}", DirName |-> "{dir_name}",
      FullDirName |-> "{full_dir_name}", Workspace |-> "{workspace}",
      WorkspaceFolder |-> "{workspace_folder}",
      WorkspaceAndFolder |-> "{workspace_and_folder}",
      LanguageLowerCase |-> "{lang}", LanguageTitleCase |-> "{Lang}",
      LanguageUpperCase |-> "{LANG}", TotalLines |-> "{total_lines}",
      CurrentLine |-> "{current_line}", CurrentColumn |-> "{current_column}",
      FileSize |-> "{file_size}", AppName |-> "{app_name}",
      GitRepoName |-> "{git_repo_name}", GitBranch |-> "{git_branch}" ]

CONFIG_KEYS ==
    [ DetailsIdling |-> "detailsIdling", DetailsEditing |-> "detailsEditing",
      DetailsDebugging |-> "detailsDebugging",
      LowerDetailsIdling |-> "lowerDetailsIdling",
      LowerDetailsEditing |-> "lowerDetailsEditing",
      LowerDetailsDebugging |-> "lowerDetailsDebugging",
      LowerDetailsNoWorkspaceFound |-> "lowerDetailsNoWorkspaceFound",
      LargeImageIdling |-> "largeImageIdling", LargeImage |-> "largeImage",
      SmallImage |-> "smallImage" ]

\* FILE_SIZES[k]: the unit of index k; an index past the array reads undefined
FILE_SIZES(k) == "<FILE_SIZES[" \o ToString(k) \o "]>"

\* null and undefined of a number-typed field (startTimestamp?: number | null)
Null == -1
Undefined == -2
\* undefined of a string- or object-typed value
Undef == "<undefined>"

----------------------------------------------------------------------------
(* String primitives *)

\* String.prototype.includes(token)
Includes(s, tok) == \E i \in 1..Len(s) : s[i] = tok

IndexOf(s, tok) == CHOOSE i \in 1..Len(s) : s[i] = tok /\ \A j \in 1..(i-1) : s[j] # tok

\* String.prototype.replace(token, value): a string pattern replaces the first
\* occurrence only
Replace(s, tok, val) ==
    IF Includes(s, tok)
    THEN LET i == IndexOf(s, tok)
         IN SubSeq(s, 1, i-1) \o val \o SubSeq(s, i+1, Len(s))
    ELSE s

\* Number.prototype.toLocaleString() of a small non-negative integer
NumStr(n) == <<ToString(n)>>

\* number of occurrences of a token
RECURSIVE Count(_, _)
Count(s, tok) ==
    IF s = <<>> THEN 0
    ELSE (IF Head(s) = tok THEN 1 ELSE 0) + Count(Tail(s), tok)

----------------------------------------------------------------------------
(* fileDetails: the file-size rendering, activity.ts:157-172 *)

RECURSIVE Pow1000(_)
Pow1000(k) == IF k = 0 THEN 1 ELSE 1000 * Pow1000(k-1)

\* size >= 1000 in place of size > 1000
AtLeast1000(n, den) == n \div den >= 1000

\* size > 1000 where size = n / den, without leaving 32 bits
Exceeds1000(n, den) ==
    \/ n \div den > 1000
    \/ n \div den = 1000 /\ n % den > 0

\* the while loop of lines 163-166, entered with currentDivision = k >= 1
RECURSIVE Divide(_, _)
Divide(n, k) == IF Exceeds1000(n, Pow1000(k)) THEN Divide(n, k+1) ELSE k

\* lines 157-167: the final currentDivision
CurrentDivision(n) == IF n > 1000 THEN Divide(n, 1) ELSE 0

\* size.toFixed(2) of size = n / 1000^k, k >= 1, in hundredths.  The quotient
\* is an IEEE double: away from a tie the nearest hundredth is certain; on an
\* exact decimal tie the double may lie on either side, so both neighbours
\* are possible outcomes.
ToFixed2(n, k) ==
    LET d == Pow1000(k) \div 100
        lo == n \div d
        r == n % d
    IN IF 2 * r < d THEN {lo}
       ELSE IF 2 * r > d THEN {lo + 1}
       ELSE {lo, lo + 1}

\* digits of a toFixed(2) result given in hundredths
FixedStr(h) ==
    <<ToString(h \div 100), ".", ToString((h % 100) \div 10), ToString(h % 10)>>

\* line 171: the possible renderings of a size of n bytes
FormatSize(n) ==
    LET k == CurrentDivision(n)
    IN IF n > 1000
       THEN { FixedStr(h) \o <<FILE_SIZES(k)>> : h \in ToFixed2(n, k) }
       ELSE { NumStr(n) \o <<FILE_SIZES(k)>> }

----------------------------------------------------------------------------
(* Host state read through the vscode API *)

NoEditor == "none"

\* the documents an editor can show.  fileName and relative are paths already
\* cut at path.sep; folder is workspace.getWorkspaceFolder(uri)?.name;
\* relative is workspace.asRelativePath(fileName).split(sep); size is what
\* workspace.fs.stat(uri) reports; line/character are selection.active.
Documents ==
    [ main |-> [ fileName |-> <<"proj", "src", "main.ts">>, languageId |-> "typescript",
                 folder |-> <<"proj">>, relative |-> <<"src", "main.ts">>,
                 size |-> 1500, line |-> 4, character |-> 0 ],
      log  |-> [ fileName |-> <<"run.log">>, languageId |-> "Log",
                 folder |-> <<Undef>>, relative |-> <<"run.log">>,
                 size |-> 1500000, line |-> 9, character |-> 2 ] ]

DocIds == DOMAIN Documents
Editors == {NoEditor} \cup DocIds

\* path.sep
sep == "/"

\* workspace.name
WorkspaceName == <<Undef>>

\* env.appName
AppName == "Visual Studio Code - Insiders"
AppNameIncludesInsiders == TRUE

\* a remote of a repository of the git integration
Remote(url) == [fetchUrl |-> url]

\* a repository: ui.selected, state.HEAD?.name, state.remotes
Repo(sel, head, rem) == [selected |-> sel, HEAD |-> head, remotes |-> rem]

GitAbsent == [installed |-> FALSE, repositories |-> <<>>]
Git(repos) == [installed |-> TRUE, repositories |-> repos]

OkUrl == <<"git@github.com:user", sep, "repo", ".git">>
NoSlashUrl == <<"local-bundle">>

\* the states of the git integration the host can be in
GitStates ==
    { GitAbsent,
      Git(<<>>),
      Git(<<Repo(FALSE, <<"main">>, <<Remote(OkUrl)>>)>>),
      Git(<<Repo(TRUE, <<Undef>>, <<Remote(OkUrl)>>)>>),
      Git(<<Repo(TRUE, <<"main">>, <<>>)>>),
      Git(<<Repo(TRUE, <<"main">>, <<Remote(<<Undef>>)>>)>>),
      Git(<<Repo(TRUE, <<"main">>, <<Remote(NoSlashUrl)>>)>>),
      Git(<<Repo(FALSE, <<"dev">>, <<>>), Repo(TRUE, <<"main">>, <<Remote(OkUrl)>>)>>) }

----------------------------------------------------------------------------
(* Collaborators of ./util *)

\* resolveFileIcon(document): the icon name of the document
resolveFileIcon(doc) ==
    CASE doc.languageId = "typescript" -> "ts"
      [] OTHER -> "text"

toLower(icon) == <<"lower(" \o icon \o ")">>
toTitle(icon) == <<"title(" \o icon \o ")">>
toUpper(icon) == <<"upper(" \o icon \o ")">>

\* getConfig(): the user's templates
Config ==
    [ detailsIdling |-> <<"Idling">>,
      detailsEditing |-> <<"Editing ", "{file_name}", " ", "{file_size}">>,
      detailsDebugging |-> <<"Debugging ", "{file_name}", ":", "{current_line}">>,
      lowerDetailsIdling |-> <<"{empty}">>,
      lowerDetailsEditing |-> <<"Workspace: ", "{workspace}", " ", "{git_branch}", " ", "{file_size}">>,
      lowerDetailsDebugging |-> <<"Debugging: ", "{workspace_and_folder}", " ", "{git_repo_name}">>,
      lowerDetailsNoWorkspaceFound |-> <<"No workspace">>,
      largeImageIdling |-> <<"Idling">>,
      largeImage |-> <<"Editing a ", "{LANG}", " file">>,
      smallImage |-> <<"{app_name}">> ]

----------------------------------------------------------------------------
(* fileDetails, activity.ts:139-201 *)

\* lines 144-154: total lines, current line, current column
FDHead(raw, doc) ==
    LET r1 == IF Includes(raw, REPLACE_KEYS.TotalLines)
              THEN Replace(raw, REPLACE_KEYS.TotalLines, <<"[object Object]">>)
              ELSE raw
        r2 == IF Includes(r1, REPLACE_KEYS.CurrentLine)
              THEN Replace(r1, REPLACE_KEYS.CurrentLine, NumStr(doc.line + 1))
              ELSE r1
    IN IF Includes(r2, REPLACE_KEYS.CurrentColumn)
       THEN Replace(r2, REPLACE_KEYS.CurrentColumn, NumStr(doc.character + 1))
       ELSE r2

\* line 156: whether the stat call is issued
NeedsStat(raw) == Includes(raw, REPLACE_KEYS.FileSize)

\* lines 169-172, with the rendering of the stat result
FDSize(raw, rendering) == Replace(raw, REPLACE_KEYS.FileSize, rendering)

\* repositories.find((repo) => repo.ui.selected)
HasSelected(repos) == \E i \in 1..Len(repos) : repos[i].selected
FindSelected(repos) ==
    repos[CHOOSE i \in 1..Len(repos) :
              repos[i].selected /\ \A j \in 1..(i-1) : ~repos[j].selected]

\* git?.repositories.length
HasRepositories(git) == git.installed /\ Len(git.repositories) > 0

\* lines 175-184
FDGitBranch(raw, git) ==
    IF Includes(raw, REPLACE_KEYS.GitBranch)
    THEN IF HasRepositories(git)
         THEN Replace(raw, REPLACE_KEYS.GitBranch,
                      IF HasSelected(git.repositories)
                         /\ FindSelected(git.repositories).HEAD # <<Undef>>
                      THEN FindSelected(git.repositories).HEAD
                      ELSE <<EMPTY>>)
         ELSE Replace(raw, REPLACE_KEYS.GitBranch, <<UNKNOWN_GIT_BRANCH>>)
    ELSE raw

\* String.prototype.split('/')
RECURSIVE Split(_)
Split(s) ==
    IF ~Includes(s, sep) THEN <<s>>
    ELSE LET i == IndexOf(s, sep)
         IN <<SubSeq(s, 1, i-1)>> \o Split(SubSeq(s, i+1, Len(s)))

\* lines 190-193: the value of the optional chain; it throws a TypeError
\* where a member is read from undefined outside a ?. link
RepoNameChain(git) ==
    IF ~HasSelected(git.repositories)
    THEN [ok |-> TRUE, value |-> <<EMPTY>>]
    ELSE LET remotes == FindSelected(git.repositories).remotes
         IN IF Len(remotes) = 0
            THEN [ok |-> FALSE, value |-> <<>>]
            ELSE IF remotes[1].fetchUrl = <<Undef>>
                 THEN [ok |-> TRUE, value |-> <<EMPTY>>]
                 ELSE LET parts == Split(remotes[1].fetchUrl)
                      IN IF Len(parts) < 2
                         THEN [ok |-> FALSE, value |-> <<>>]
                         ELSE [ok |-> TRUE, value |-> Replace(parts[2], ".git", <<>>)]

\* lines 186-198
FDGitRepoName(raw, git) ==
    IF Includes(raw, REPLACE_KEYS.GitRepoName)
    THEN IF HasRepositories(git)
         THEN LET v == RepoNameChain(git)
              IN [ok |-> v.ok, raw |-> Replace(raw, REPLACE_KEYS.GitRepoName, v.value)]
         ELSE [ok |-> TRUE, raw |-> Replace(raw, REPLACE_KEYS.GitRepoName, <<UNKNOWN_GIT_REPO_NAME>>)]
    ELSE [ok |-> TRUE, raw |-> raw]

\* lines 175-200: what follows the file-size block
FDTail(raw, git) == FDGitRepoName(FDGitBranch(raw, git), git)

----------------------------------------------------------------------------
(* details, activity.ts:93-137 *)

\* Array.prototype.join(sep)
RECURSIVE Join(_)
Join(parts) ==
    IF Len(parts) = 0 THEN <<>>
    ELSE IF Len(parts) = 1 THEN <<parts[1]>>
    ELSE <<parts[1], sep>> \o Join(Tail(parts))

\* line 98: basename(fileName)
BaseName(doc) == doc.fileName[Len(doc.fileName)]

\* lines 99-101: the last segment of parse(fileName).dir
DirName(doc) ==
    IF Len(doc.fileName) < 2 THEN "" ELSE doc.fileName[Len(doc.fileName) - 1]

\* line 103
NoWorkspaceFound ==
    Replace(Config[CONFIG_KEYS.LowerDetailsNoWorkspaceFound], REPLACE_KEYS.Empty, <<EMPTY>>)

\* line 105: workspaceFolder?.name ?? noWorkspaceFound
WorkspaceFolderName(doc) == IF doc.folder # <<Undef>> THEN doc.folder ELSE NoWorkspaceFound

\* line 106: workspace.name ?? workspaceFolderName
WorkspaceNameOf(doc) ==
    IF WorkspaceName # <<Undef>> THEN WorkspaceName ELSE WorkspaceFolderName(doc)

\* line 107
WorkspaceAndFolder(doc) ==
    WorkspaceNameOf(doc)
        \o (IF WorkspaceFolderName(doc) = <<EMPTY>> THEN <<>>
            ELSE <<" - ">> \o WorkspaceFolderName(doc))

\* the template with editing and debugging exchanged
SelectKeySwapped(h, idling, editing, debugging) ==
    IF h.editor = NoEditor THEN idling
    ELSE IF h.debug THEN editing ELSE debugging

\* lines 95, 97, 111-115: the configuration key whose template is resolved
SelectKey(h, idling, editing, debugging) ==
    IF h.editor = NoEditor THEN idling
    ELSE IF h.debug THEN debugging ELSE editing

\* lines 117-122: the full-dir-name token, inside a workspace folder only
FullDir(raw, doc) ==
    IF doc.folder # <<Undef>>
    THEN Replace(raw, REPLACE_KEYS.FullDirName,
                 doc.folder \o <<sep>> \o Join(SubSeq(doc.relative, 1, Len(doc.relative) - 1)))
    ELSE raw

\* lines 125-133: the tokens details replaces itself, from the locals it read
\* before the await
DetailsTail(raw, doc) ==
    LET icon == resolveFileIcon(doc)
        r1 == Replace(raw, REPLACE_KEYS.FileName, <<BaseName(doc)>>)
        r2 == Replace(r1, REPLACE_KEYS.DirName, <<DirName(doc)>>)
        r3 == Replace(r2, REPLACE_KEYS.Workspace, WorkspaceNameOf(doc))
        r4 == Replace(r3, REPLACE_KEYS.WorkspaceFolder, WorkspaceFolderName(doc))
        r5 == Replace(r4, REPLACE_KEYS.WorkspaceAndFolder, WorkspaceAndFolder(doc))
        r6 == Replace(r5, REPLACE_KEYS.LanguageLowerCase, toLower(icon))
        r7 == Replace(r6, REPLACE_KEYS.LanguageTitleCase, toTitle(icon))
    IN Replace(r7, REPLACE_KEYS.LanguageUpperCase, toUpper(icon))

\* a resolution of details in progress or resolved: the key it read, the
\* document it captured, the text so far, and whether it was rejected
Cur(key, doc, raw, ok) == [key |-> key, doc |-> doc, raw |-> raw, ok |-> ok]

NoCur == Cur("", NoEditor, <<>>, TRUE)

\* lines 175-200 and 125-136: from the end of the file-size block to the
\* return of details
DetailsEnd(key, doc, raw, git) ==
    LET g == FDTail(raw, git)
    IN Cur(key, doc, IF g.ok THEN DetailsTail(g.raw, Documents[doc]) ELSE g.raw, g.ok)

\* lines 94-124 and 140-156: details up to the stat call of fileDetails, or
\* to its return when no stat call is made
DetailsBegin(h, idling, editing, debugging) ==
    LET key == SelectKey(h, idling, editing, debugging)
    IN IF h.editor = NoEditor
       THEN Cur(key, NoEditor, Replace(Config[key], REPLACE_KEYS.Empty, <<EMPTY>>), TRUE)
       ELSE LET doc == Documents[h.editor]
                raw == FDHead(FullDir(Config[key], doc), doc)
            IN IF NeedsStat(raw) THEN Cur(key, h.editor, raw, TRUE)
               ELSE DetailsEnd(key, h.editor, raw, h.git)

\* whether DetailsBegin stops at the stat call
IssuesStat(h, idling, editing, debugging) ==
    /\ h.editor # NoEditor
    /\ NeedsStat(FDHead(FullDir(Config[SelectKey(h, idling, editing, debugging)],
                                Documents[h.editor]), Documents[h.editor]))

----------------------------------------------------------------------------
(* activity, activity.ts:37-91 *)

Payload(d, s, ts, lk, lt, sk, st) ==
    [ details |-> d, state |-> s, startTimestamp |-> ts, largeImageKey |-> lk,
      largeImageText |-> lt, smallImageKey |-> sk, smallImageText |-> st ]

\* previous: ActivityPayload = {}
NoPayload == Payload(<<>>, <<>>, Undefined, "", <<>>, "", <<>>)

\* lines 41-45
DefaultSmallImageKey(h) ==
    IF h.debug THEN DEBUG_IMAGE_KEY
    ELSE IF AppNameIncludesInsiders THEN VSCODE_INSIDERS_IMAGE_KEY
    ELSE VSCODE_IMAGE_KEY

\* a || b on timestamps: 0 is falsy too
OrElse(a, b) == IF a = Null \/ a = Undefined \/ a = 0 THEN b ELSE a

\* line 54: a ?? b
Coalesce(a, b) == IF a = Null \/ a = Undefined THEN b ELSE a

\* lines 47-59: the first payload
FirstState(d, s, prev, now, small) ==
    Payload(d, s, Coalesce(prev, now), IDLE_IMAGE_KEY,
            Config[CONFIG_KEYS.LargeImageIdling], small,
            Replace(Config[CONFIG_KEYS.SmallImage], REPLACE_KEYS.AppName, <<AppName>>))

\* String.prototype.padEnd(2, EMPTY): every symbol is at least one character
PadEnd2(s) == IF Len(s) = 0 THEN <<EMPTY>> ELSE s

\* line 66
LargeImageKey(doc) == resolveFileIcon(doc)

\* lines 67-71
LargeImageText(doc) ==
    LET icon == resolveFileIcon(doc)
        r1 == Replace(Config[CONFIG_KEYS.LargeImage], REPLACE_KEYS.LanguageLowerCase, toLower(icon))
        r2 == Replace(r1, REPLACE_KEYS.LanguageTitleCase, toTitle(icon))
    IN PadEnd2(Replace(r2, REPLACE_KEYS.LanguageUpperCase, toUpper(icon)))

\* the second payload built without spreading the first
SecondStateNoSpread(st, d, s, lk, lt) ==
    Payload(d, s, Undefined, lk, lt, "", <<>>)

\* lines 73-83: the second payload
SecondState(st, d, s, lk, lt) ==
    [st EXCEPT !.details = d, !.state = s, !.largeImageKey = lk, !.largeImageText = lt]

\* the language id compared in another letter case
IsLogLowerCase(doc) == doc.languageId = "log"

\* line 62: the early return
IsLog(doc) == doc.languageId = "Log"

----------------------------------------------------------------------------
(* The invocations of activity() *)

\* the invocations in flight at a time: at most two, an older one (A) and a
\* newer one (B); a slot is free again once its invocation has ended
CallIds == {"A", "B"}
Awaits == {"await1", "await2", "await3", "await4"}

\* an invocation: pc is the await it stands at (await1: line 48, await2: line
\* 49, await3: line 75, await4: line 76); stats counts its outstanding stat
\* calls; cur is the details() resolution it awaits; state, d3 and icon are
\* the locals of activity().  The rest is history: titleKey and subKey are
\* the keys the title and subtitle were read from, host0 and debug0 the host
\* state at the start, changed whether the host changed while the call was
\* in flight, t0 and t1 the clock at the start and at the return, rounds the
\* number of details() resolutions started.
IdleCall ==
    [ pc |-> "idle", stats |-> 0, previous |-> Undefined, small |-> "",
      cur |-> NoCur, state |-> NoPayload, d3 |-> <<>>, icon |-> NoEditor,
      titleKey |-> "", subKey |-> "", host0 |-> NoEditor, debug0 |-> FALSE,
      changed |-> FALSE, t0 |-> 0, t1 |-> 0, rounds |-> 0 ]

\* await without the wait: goes on while the stat call is outstanding
NotAwaited(call) == TRUE

\* await: the invocation goes on only once the awaited details() has resolved
Resolved(call) == call.stats = 0

\* the host's event loop takes a new event (a stat result, a change of the
\* editor, a call of activity()) only when no invocation has a continuation
\* ready to run: promise continuations run before the next event
Quiescent == \A c \in CallIds : calls[c].pc \in Awaits => calls[c].stats > 0

InFlight(c) == calls[c].pc \in Awaits

StatIssued(h, idling, editing, debugging) ==
    IF IssuesStat(h, idling, editing, debugging) THEN 1 ELSE 0

TitleBegin(h) ==
    DetailsBegin(h, CONFIG_KEYS.DetailsIdling, CONFIG_KEYS.DetailsEditing,
                 CONFIG_KEYS.DetailsDebugging)
TitleStat(h) ==
    StatIssued(h, CONFIG_KEYS.DetailsIdling, CONFIG_KEYS.DetailsEditing,
               CONFIG_KEYS.DetailsDebugging)
SubtitleBegin(h) ==
    DetailsBegin(h, CONFIG_KEYS.LowerDetailsIdling, CONFIG_KEYS.LowerDetailsEditing,
                 CONFIG_KEYS.LowerDetailsDebugging)
SubtitleStat(h) ==
    StatIssued(h, CONFIG_KEYS.LowerDetailsIdling, CONFIG_KEYS.LowerDetailsEditing,
               CONFIG_KEYS.LowerDetailsDebugging)

\* lines 37-48: the call, up to the first await.  The caller is an event
\* listener or a timer of the extension, so a call starts as a new event.
StartCall(c, prev) ==
    /\ calls[c].pc = "idle"
    /\ Quiescent
    /\ started < MaxCalls
    /\ c = "A" \/ InFlight("A")
    /\ started' = started + 1
    /\ calls' = [calls EXCEPT ![c] =
            [ IdleCall EXCEPT !.pc = "await1", !.previous = prev,
                              !.small = DefaultSmallImageKey(host),
                              !.cur = TitleBegin(host), !.stats = TitleStat(host),
                              !.host0 = host.editor, !.debug0 = host.debug,
                              !.t0 = clock, !.rounds = 1 ]]
    /\ overlap' = (overlap \/ \E o \in CallIds : InFlight(o))
    /\ ended' = IdleCall
    /\ UNCHANGED <<host, clock, last, returned, changes, fd, fs>>

\* line 158: the stat call of the awaited details() completes; fileDetails
\* and details run to their return
StatDone(c) ==
    /\ InFlight(c)
    /\ calls[c].stats > 0
    /\ Quiescent
    /\ \E rendering \in FormatSize(Documents[calls[c].cur.doc].size) :
          calls' = [calls EXCEPT ![c].stats = @ - 1,
                                 ![c].cur = DetailsEnd(@.key, @.doc,
                                                FDSize(@.raw, rendering), host.git)]
    /\ ended' = IdleCall
    /\ UNCHANGED <<host, clock, last, returned, started, overlap, changes, fd, fs>>

\* an exception leaves activity(): the slot is free again
Raise(c) ==
    /\ calls' = [calls EXCEPT ![c] = IdleCall]
    /\ ended' = [calls[c] EXCEPT !.pc = "thrown", !.cur = NoCur]
    /\ UNCHANGED <<host, clock, last, returned, started, overlap, changes, fd, fs>>

\* the awaited details() was rejected: the rejection leaves activity()
Throw(c) ==
    /\ InFlight(c)
    /\ Resolved(calls[c])
    /\ ~calls[c].cur.ok
    /\ Raise(c)

\* lines 88-90 (or 63): the payload goes back to the caller
Return(c, payload, sub) ==
    /\ calls' = [calls EXCEPT ![c] = IdleCall]
    /\ ended' = [calls[c] EXCEPT !.pc = "done", !.state = payload, !.subKey = sub,
                                 !.cur = NoCur, !.d3 = <<>>, !.icon = NoEditor,
                                 !.t1 = clock]
    /\ last' = [startTimestamp |-> payload.startTimestamp]
    /\ returned' = Append(returned, payload.startTimestamp)
    /\ UNCHANGED <<host, clock, started, overlap, changes, fd, fs>>

\* lines 48-49: details resolved, the resolution of state begins
AfterDetails1(c) ==
    /\ calls[c].pc = "await1"
    /\ Resolved(calls[c])
    /\ calls[c].cur.ok
    /\ calls' = [calls EXCEPT ![c].pc = "await2", ![c].rounds = @ + 1,
                              ![c].state.details = calls[c].cur.raw,
                              ![c].titleKey = calls[c].cur.key,
                              ![c].cur = SubtitleBegin(host),
                              ![c].stats = @ + SubtitleStat(host)]
    /\ ended' = IdleCall
    /\ UNCHANGED <<host, clock, last, returned, started, overlap, changes, fd, fs>>

\* lines 49-75: state resolved, the first payload is built; without an
\* editor or on a 'Log' document it is returned, else the second resolution
\* of details begins
AfterState1(c) ==
    /\ calls[c].pc = "await2"
    /\ Resolved(calls[c])
    /\ calls[c].cur.ok
    /\ LET call == calls[c]
           st == FirstState(call.state.details, call.cur.raw, call.previous,
                            clock, call.small)
       IN \/ /\ host.editor = NoEditor
             /\ Return(c, st, call.cur.key)
          \/ /\ host.editor # NoEditor
             /\ IsLog(Documents[host.editor])
             /\ Return(c, st, call.cur.key)
          \/ /\ host.editor # NoEditor
             /\ ~IsLog(Documents[host.editor])
             /\ calls' = [calls EXCEPT ![c].pc = "await3", ![c].state = st,
                                       ![c].rounds = @ + 1,
                                       ![c].subKey = call.cur.key,
                                       ![c].icon = host.editor,
                                       ![c].cur = TitleBegin(host),
                                       ![c].stats = @ + TitleStat(host)]
             /\ ended' = IdleCall
             /\ UNCHANGED <<host, clock, last, returned, started, overlap, changes, fd, fs>>

\* lines 75-76: the second details resolved, the second state begins
AfterDetails2(c) ==
    /\ calls[c].pc = "await3"
    /\ Resolved(calls[c])
    /\ calls[c].cur.ok
    /\ calls' = [calls EXCEPT ![c].pc = "await4", ![c].rounds = @ + 1,
                              ![c].d3 = calls[c].cur.raw,
                              ![c].titleKey = calls[c].cur.key,
                              ![c].cur = SubtitleBegin(host),
                              ![c].stats = @ + SubtitleStat(host)]
    /\ ended' = IdleCall
    /\ UNCHANGED <<host, clock, last, returned, started, overlap, changes, fd, fs>>

\* lines 76-90: the second payload is built and returned; line 85 reads
\* window.activeTextEditor.document again and throws when the editor is gone
AfterState2(c) ==
    /\ calls[c].pc = "await4"
    /\ Resolved(calls[c])
    /\ calls[c].cur.ok
    /\ LET call == calls[c]
           doc == Documents[call.icon]
           st == SecondState(call.state, call.d3, call.cur.raw,
                             LargeImageKey(doc), LargeImageText(doc))
       IN \/ /\ host.editor # NoEditor
             /\ Return(c, st, call.cur.key)
          \/ /\ host.editor = NoEditor
             /\ Raise(c)

\* the user opens, switches or closes an editor, or a debug session starts
\* or ends
HostChange(e, d) ==
    /\ Quiescent
    /\ changes < MaxChanges
    /\ <<e, d>> # <<host.editor, host.debug>>
    /\ host' = [host EXCEPT !.editor = e, !.debug = d]
    /\ calls' = [c \in CallIds |->
                    IF InFlight(c) THEN [calls[c] EXCEPT !.changed = TRUE] ELSE calls[c]]
    /\ changes' = changes + 1
    /\ ended' = IdleCall
    /\ UNCHANGED <<clock, last, returned, started, overlap, fd, fs>>

\* time passes
Tick ==
    /\ clock < MaxClock
    /\ clock' = clock + 1
    /\ ended' = IdleCall
    /\ UNCHANGED <<host, calls, last, returned, started, overlap, changes, fd, fs>>

\* the stand-alone runs are not part of this specification
NoFd == [ pc |-> "off", template |-> <<>>, raw |-> <<>>, git |-> GitAbsent,
          doc |-> "main", stats |-> 0 ]
NoFs == [pc |-> "off", n |-> 0, out |-> <<>>]

Hosts == [editor : Editors, debug : BOOLEAN, git : GitStates]

\* an invocation that is never made
OffCall == [IdleCall EXCEPT !.pc = "off"]

\* the previous payloads a caller can hand over: none, one whose
\* startTimestamp is null, one with a startTimestamp
Previous == {Undefined, Null} \cup 0..MaxClock

\* one call of activity(previous), with any previous payload, in any host
\* state, while the host changes
Init ==
    /\ host \in Hosts
    /\ clock = 0
    /\ calls = [c \in CallIds |-> IF c = "A" THEN IdleCall ELSE OffCall]
    /\ last = [startTimestamp |-> NoPayload.startTimestamp]
    /\ returned = <<>>
    /\ ended = IdleCall
    /\ started = 0
    /\ overlap = FALSE
    /\ changes = 0
    /\ fd = NoFd
    /\ fs = NoFs

Next ==
    \/ \E c \in CallIds, prev \in Previous : started = 0 /\ StartCall(c, prev)
    \/ \E c \in CallIds : StatDone(c)
    \/ \E c \in CallIds : Throw(c)
    \/ \E c \in CallIds : AfterDetails1(c)
    \/ \E c \in CallIds : AfterState1(c)
    \/ \E c \in CallIds : AfterDetails2(c)
    \/ \E c \in CallIds : AfterState2(c)
    \/ \E e \in Editors, d \in BOOLEAN : HostChange(e, d)
    \/ Tick

Spec == Init /\ [][Next]_vars

\* the states of the git integration of a session: a selected repository
\* with a remote, and one whose remote has no '/' in its fetch URL
SessionGitStates ==
    { Git(<<Repo(TRUE, <<"main">>, <<Remote(OkUrl)>>)>>),
      Git(<<Repo(TRUE, <<"main">>, <<Remote(NoSlashUrl)>>)>>) }

\* a session: the caller makes up to MaxCalls calls, possibly before earlier
\* ones have returned, and hands each the payload last returned
InitSession ==
    /\ host \in [editor : Editors, debug : BOOLEAN, git : SessionGitStates]
    /\ clock = 0
    /\ calls = [c \in CallIds |-> IdleCall]
    /\ last = [startTimestamp |-> NoPayload.startTimestamp]
    /\ returned = <<>>
    /\ ended = IdleCall
    /\ started = 0
    /\ overlap = FALSE
    /\ changes = 0
    /\ fd = NoFd
    /\ fs = NoFs

NextSession ==
    \/ \E c \in CallIds : StartCall(c, last.startTimestamp)
    \/ \E c \in CallIds : StatDone(c)
    \/ \E c \in CallIds : Throw(c)
    \/ \E c \in CallIds : AfterDetails1(c)
    \/ \E c \in CallIds : AfterState1(c)
    \/ \E c \in CallIds : AfterDetails2(c)
    \/ \E c \in CallIds : AfterState2(c)
    \/ \E e \in Editors, d \in BOOLEAN : HostChange(e, d)
    \/ Tick

SpecSession == InitSession /\ [][NextSession]_vars

----------------------------------------------------------------------------
(* fileDetails on its own: every template over a small alphabet, every state
   of the git integration *)

FDTokens ==
    { REPLACE_KEYS.TotalLines, REPLACE_KEYS.CurrentLine, REPLACE_KEYS.CurrentColumn,
      REPLACE_KEYS.FileSize, REPLACE_KEYS.GitBranch, REPLACE_KEYS.GitRepoName }

\* the tokens of fileDetails, a token it does not know and literal text
Alphabet == FDTokens \cup { REPLACE_KEYS.FileName, "text" }

Templates == UNION { [1..n -> Alphabet] : n \in 0..MaxLen }

\* lines 139-158: the call, up to the stat call or, without a file-size
\* token, to the return
FDStart ==
    /\ fd.pc = "init"
    /\ LET raw == FDHead(fd.template, Documents[fd.doc])
           t == FDTail(raw, fd.git)
       IN \/ /\ NeedsStat(raw)
             /\ fd' = [fd EXCEPT !.pc = "stat", !.raw = raw, !.stats = @ + 1]
          \/ /\ ~NeedsStat(raw)
             /\ fd' = [fd EXCEPT !.pc = IF t.ok THEN "done" ELSE "thrown", !.raw = t.raw]
    /\ UNCHANGED <<host, clock, calls, last, returned, ended, started, overlap, changes, fs>>

\* lines 158-200: the stat call completes
FDStat ==
    /\ fd.pc = "stat"
    /\ \E rendering \in FormatSize(Documents[fd.doc].size) :
          LET t == FDTail(FDSize(fd.raw, rendering), fd.git)
          IN fd' = [fd EXCEPT !.pc = IF t.ok THEN "done" ELSE "thrown", !.raw = t.raw]
    /\ UNCHANGED <<host, clock, calls, last, returned, ended, started, overlap, changes, fs>>

InitFD ==
    /\ host = [editor |-> NoEditor, debug |-> FALSE, git |-> GitAbsent]
    /\ clock = 0
    /\ calls = [c \in CallIds |-> IdleCall]
    /\ last = [startTimestamp |-> NoPayload.startTimestamp]
    /\ returned = <<>>
    /\ ended = IdleCall
    /\ started = 0
    /\ overlap = FALSE
    /\ changes = 0
    /\ fd \in [ pc : {"init"}, template : Templates, raw : {<<>>}, git : GitStates,
                doc : DocIds, stats : {0} ]
    /\ fs = NoFs

NextFD == FDStart \/ FDStat

SpecFD == InitFD /\ [][NextFD]_vars

----------------------------------------------------------------------------
(* The file-size rendering on its own *)

RECURSIVE Pow10(_)
Pow10(e) == IF e = 0 THEN 1 ELSE 10 * Pow10(e-1)

\* byte sizes around every power of ten
Sizes == { m * Pow10(e) + d : m \in 0..MaxMant, e \in 0..MaxExp, d \in 0..MaxOff }

\* lines 157-172 on a stat result of fs.n bytes
Render ==
    /\ fs.pc = "init"
    /\ \E rendering \in FormatSize(fs.n) :
          fs' = [fs EXCEPT !.pc = "done", !.out = rendering]
    /\ UNCHANGED <<host, clock, calls, last, returned, ended, started, overlap, changes, fd>>

InitSize ==
    /\ host = [editor |-> NoEditor, debug |-> FALSE, git |-> GitAbsent]
    /\ clock = 0
    /\ calls = [c \in CallIds |-> IdleCall]
    /\ last = [startTimestamp |-> NoPayload.startTimestamp]
    /\ returned = <<>>
    /\ ended = IdleCall
    /\ started = 0
    /\ overlap = FALSE
    /\ changes = 0
    /\ fd = NoFd
    /\ fs \in [pc : {"init"}, n : Sizes, out : {<<>>}]

NextSize == Render

SpecSize == InitSize /\ [][NextSize]_vars

----------------------------------------------------------------------------
(* Properties of activity() *)

Done == ended.pc = "done"
IsTime(x) == x >= 0

\* C1: the returned startTimestamp is the previous payload's when that one is
\* neither null nor undefined, and otherwise a clock value read between the
\* start and the return of the call; this holds for the early returns and
\* for the payload rebuilt at lines 73-83 alike.
C1_StartTimestamp ==
    Done =>
        LET ts == ended.state.startTimestamp
        IN IF ended.previous # Null /\ ended.previous # Undefined
           THEN ts = ended.previous
           ELSE ended.t0 <= ts /\ ts <= ended.t1

\* a call on an open document carried the timestamp 0 over while the clock
\* had moved on
C1_Witness ==
    /\ Done
    /\ ended.previous = 0
    /\ ended.rounds = 4
    /\ ended.t1 > 0
    /\ ended.state.startTimestamp = 0

NonDecreasing ==
    \A i, j \in 1..Len(returned) :
        i < j => IsTime(returned[i]) /\ IsTime(returned[j]) /\ returned[i] <= returned[j]

\* C2 as stated: in a session, where every call is handed the payload last
\* returned, the startTimestamps never decrease in order of return,
\* overlapping calls included.
C2_MonotoneWithOverlap == NonDecreasing

\* C2 as amended: in a session where no call starts while another one is
\* suspended, the startTimestamps never decrease in order of return.
C2_MonotoneSerial == ~overlap => NonDecreasing

\* two calls made one after the other have both returned, the second one
\* started after the clock moved
C2_Witness ==
    /\ ~overlap
    /\ Len(returned) = 2
    /\ returned[2] = returned[1]
    /\ Done
    /\ ended.previous = returned[1]
    /\ ended.t0 > returned[1]

\* the key the mode of the host selects
ModeKey(editor, dbg, idling, editing, debugging) ==
    IF editor = NoEditor THEN idling
    ELSE IF dbg THEN debugging ELSE editing

\* C3: with an unchanged host, the title is read from the Details* key of
\* the mode and the subtitle from the LowerDetails* key of the mode: idle
\* without an editor whatever the debug session, debugging with an editor
\* and a debug session, editing otherwise.
C3_TemplateByMode ==
    (Done /\ ~ended.changed) =>
        /\ ended.titleKey =
               ModeKey(ended.host0, ended.debug0, "detailsIdling",
                       "detailsEditing", "detailsDebugging")
        /\ ended.subKey =
               ModeKey(ended.host0, ended.debug0, "lowerDetailsIdling",
                       "lowerDetailsEditing", "lowerDetailsDebugging")
        /\ ended.host0 = NoEditor =>
               /\ ended.state.details = <<"Idling">>
               /\ ended.state.state = <<EMPTY>>

\* a call with an editor and a debug session has returned
C3_Witness ==
    /\ Done
    /\ ~ended.changed
    /\ ended.host0 = "main"
    /\ ended.debug0
    /\ ended.titleKey = "detailsDebugging"

\* C5 as stated: with an unchanged host and a stat call that succeeds,
\* activity() never raises.
C5_NeverRaises == ~ended.changed => ended.pc # "thrown"

\* C8: an invocation never has more than one stat call outstanding.
C8_OneStatOutstanding == \A c \in CallIds : calls[c].stats <= 1

\* the fourth details() of a call waits for its stat call after the host
\* changed
C8_Witness ==
    \E c \in CallIds :
        /\ calls[c].pc = "await4"
        /\ calls[c].rounds = 4
        /\ calls[c].stats = 1
        /\ calls[c].changed

\* the large image of a call made with editor e
ImageOf(e) ==
    IF e = NoEditor THEN IDLE_IMAGE_KEY
    ELSE IF Documents[e].languageId = "Log" THEN IDLE_IMAGE_KEY
    ELSE resolveFileIcon(Documents[e])

\* C9 as stated: whatever the host does during the call, title, subtitle and
\* large image of the returned payload are those of one host mode.
C9_OneMode ==
    Done =>
        \E e \in Editors, d \in BOOLEAN :
            /\ ended.titleKey =
                   ModeKey(e, d, "detailsIdling", "detailsEditing", "detailsDebugging")
            /\ ended.subKey =
                   ModeKey(e, d, "lowerDetailsIdling", "lowerDetailsEditing",
                           "lowerDetailsDebugging")
            /\ ended.state.largeImageKey = ImageOf(e)

\* C10: with an unchanged host, the large image is the idle one exactly
\* without an editor or on a 'Log' document, and the file icon otherwise; a
\* call on a 'Log' document returns after two resolutions, read from the
\* editing or debugging keys.
C10_LargeImage ==
    (Done /\ ~ended.changed) =>
        LET idle == ended.host0 = NoEditor \/ Documents[ended.host0].languageId = "Log"
        IN /\ idle =>
               /\ ended.state.largeImageKey = IDLE_IMAGE_KEY
               /\ ended.state.largeImageText = Config[CONFIG_KEYS.LargeImageIdling]
               /\ ended.rounds = 2
           /\ ~idle =>
               /\ ended.state.largeImageKey = "ts"
               /\ ended.state.largeImageKey # IDLE_IMAGE_KEY
               /\ ended.state.largeImageText # Config[CONFIG_KEYS.LargeImageIdling]
               /\ ended.rounds = 4
           /\ (ended.host0 # NoEditor /\ idle) =>
               /\ ended.titleKey = IF ended.debug0 THEN "detailsDebugging"
                                   ELSE "detailsEditing"
               /\ ended.subKey = IF ended.debug0 THEN "lowerDetailsDebugging"
                                 ELSE "lowerDetailsEditing"

\* a call on a 'Log' document during a debug session has returned
C10_Witness ==
    /\ Done
    /\ ~ended.changed
    /\ ended.host0 = "log"
    /\ ended.debug0
    /\ ended.state.largeImageKey = IDLE_IMAGE_KEY
    /\ ended.titleKey = "detailsDebugging"

----------------------------------------------------------------------------
(* Properties of fileDetails() *)

GitUnavailable(git) == ~git.installed \/ ~HasSelected(git.repositories)

\* C4 as stated: without live git data (no integration, no repository, or no
\* selected repository) the substitution does not fail and the git tokens
\* are replaced by the UNKNOWN sentinels.
C4_UnknownSentinels ==
    GitUnavailable(fd.git) =>
        /\ fd.pc # "thrown"
        /\ fd.pc = "done" =>
            /\ Includes(fd.template, REPLACE_KEYS.GitBranch)
                   => Includes(fd.raw, UNKNOWN_GIT_BRANCH)
            /\ Includes(fd.template, REPLACE_KEYS.GitRepoName)
                   => Includes(fd.raw, UNKNOWN_GIT_REPO_NAME)

\* C6 as stated: no token of fileDetails is left in the result, also when a
\* token occurs more than once; a template without any of them comes back
\* unchanged and without a stat call.
C6_NoTokenLeft ==
    fd.pc = "done" =>
        /\ \A tok \in FDTokens : ~Includes(fd.raw, tok)
        /\ (\A tok \in FDTokens : ~Includes(fd.template, tok))
               => fd.raw = fd.template /\ fd.stats = 0

----------------------------------------------------------------------------
(* Properties of the file-size rendering *)

\* the rendering rule applied to n bytes scaled k times, with number part h
\* hundredths and unit index k
ScaledAs(n, k, h) ==
    LET d == Pow1000(k) \div 100
    IN /\ fs.out = FixedStr(h) \o <<FILE_SIZES(k)>>
       /\ (n - 1) \div Pow1000(k) <= 999
       /\ k = 1 \/ n > Pow1000(k)
       /\ 2 * (h * d - n) <= d
       /\ 2 * (n - h * d) <= d

Rendered(lowest) ==
    fs.pc = "done" =>
        IF fs.n <= 1000
        THEN fs.out = <<ToString(fs.n), FILE_SIZES(0)>>
        ELSE \E k \in 1..3 :
                \E h \in { fs.n \div (Pow1000(k) \div 100), fs.n \div (Pow1000(k) \div 100) + 1 } :
                    /\ ScaledAs(fs.n, k, h)
                    /\ h >= lowest
                    /\ h <= 100000

\* C7 as stated: up to 1000 bytes the integer and the base unit; above, the
\* size over 1000^k rounded to two decimals with unit k, k the least number
\* of divisions that brings it to 1000 or less, the number part greater than
\* 1 and at most 1000.
C7_NumberAboveOne == Rendered(101)

\* C7 as amended: the same, the number part at least 1.00 and at most
\* 1000.00.
C7_NumberAtLeastOne == Rendered(100)

\* 1001 bytes were rendered as 1.00 with the unit of index 1
C7_Witness ==
    /\ fs.pc = "done"
    /\ fs.n = 1001
    /\ fs.out = <<"1", ".", "0", "0", FILE_SIZES(1)>>

====
